---- MODULE Spec2Model ----
(***************************************************************************)
(* Model of Phase2/main.py: the AstroPi mission loop.  The program is one  *)
(* sequential script; pc is the line about to be executed.  Every call of  *)
(* a collaborator (ephemeris loader, file system, Sense HAT, ISS position, *)
(* camera, OpenCV) either returns or raises; a raised exception transfers  *)
(* control to the except clause of line 175.                               *)
(*                                                                         *)
(* Time is the number of whole clock units elapsed since the instant       *)
(* start_time was read (line 101); one clock unit is ClockUnit minutes.    *)
(* The program only compares now_time with start_time + 175 minutes, and   *)
(* for ClockUnit dividing 175 that comparison has the same value on whole  *)
(* clock units as on the exact times.                                      *)
(*                                                                         *)
(* A telemetry row is modelled by its Row_Id; the thirteen sensor fields   *)
(* of the row do not influence control flow.  An image is modelled by the  *)
(* tick in which it was shot and the chain of operations applied to it.    *)
(* Of standard output only the exit report of lines 179-182 is modelled.   *)
(***************************************************************************)
EXTENDS Integers, Sequences, FiniteSets, TLC

\* ---- bounds of the model ----
MaxIter == 401          \* iterations of the recording cycle that are explored
ClockUnit == 35         \* minutes per unit of the modelled clock
MaxAdvance == 2         \* most clock units that pass between two clock reads

\* ---- program constants ----
MissionMinutes == 175   \* timedelta(minutes = 175)
Cadence == 200          \* count % 200 == 0
Unbound == -1           \* the value of a name that has not been assigned yet

Header == "Row_Id,Timestamp,Latitude,Longitude,Mag_x,Mag_y,Mag_z,Magnetic_grad,Accel_x,Accel_y,Accel_z,Pitch,Roll,Yaw"

VARIABLES
    pc,           \* line of main.py about to be executed, or "done"
    count,        \* data counter (line 99), Unbound before its assignment
    phcounter,    \* photo counter (line 100), Unbound before its assignment
    start_time,   \* line 101
    now_time,     \* lines 102 and 173
    dirs,         \* which of the folders log/ and pic/ exist
    log,          \* lines of the recording log CSV, <<>> while it does not exist
    pic,          \* the files of pic/: file name -> image
    events,       \* lines of events.log
    image_file,   \* line 158
    mem,          \* the image-valued names of lines 162-169
    lit,          \* value of the is_sunlit test of the current iteration
    err,          \* the pending exception: the call that raised, or "none"
    stdout,       \* the exit report printed by the finally clause
    exit,         \* how the process ended: "running", "normal", "fatal", "NameError"
    calls,        \* number of calls made so far to each collaborator
    shots,        \* the captures the camera completed: <<image file, ...>>
    allLit,       \* every is_sunlit call so far returned True
    noneLit,      \* every is_sunlit call so far returned False
    cam,          \* camera.exif_tags: tag name -> value
    frame,        \* the local names of capture() while it runs (lines 57-61)
    clock,        \* the wall clock, in clock units since line 101
    fn            \* a function of lines 44-90 applied on its own: name, argument, result, done

vars == <<pc, count, phcounter, start_time, now_time, dirs, log, pic, events,
          image_file, mem, lit, err, stdout, exit, calls, shots, allLit, noneLit,
          cam, frame, clock, fn>>

\* ---- values ----
NoFile == [counter |-> Unbound, ext |-> ""]
NoImage == [shot |-> Unbound, ops |-> <<>>]
NoMem == [image |-> NoImage, contrasted |-> NoImage, ndvi |-> NoImage,
          ndvi_contrasted |-> NoImage, color_mapped_prep |-> NoImage,
          color_mapped_image |-> NoImage]
NoCall == [name |-> "none", arg |-> <<>>, out |-> <<>>, done |-> FALSE]
NoFrame == [location |-> <<>>, lat |-> <<>>, lon |-> <<>>]
Collaborators == {"coordinates", "compass", "accelerometer", "orientation",
                  "add_csv_data", "is_sunlit", "camera", "imread", "imwrite"}

\* The data tuple of lines 148-151: its first field is count.
Row(c) == [Row_Id |-> c]

\* Mutant: the file name does not depend on the photo counter.
PhotoFile_fixed(n) == [counter |-> 0, ext |-> "jpg"]

\* image_file of line 158: photo_{phcounter:03d}.jpg
PhotoFile(n) == [counter |-> n, ext |-> "jpg"]

\* Mutant: the NDVI file is named after the current value of phcounter.
NdviFile_current(f) == [counter |-> phcounter, ext |-> "ndvi.png"]

\* image_file[:-3] + 'ndvi.png' of line 170
NdviFile(f) == [counter |-> f.counter, ext |-> "ndvi.png"]

\* The result of applying operation op to image im.
Apply(op, im) == [shot |-> im.shot, ops |-> Append(im.ops, op)]

\* The deadline, in clock units after start.
Deadline(start) == start + (MissionMinutes \div ClockUnit)

\* Mutant: the loop is entered once more at the deadline itself.
LoopCond_late(now, start) == now <= Deadline(start)

\* The condition of the while statement, line 116.
LoopCond(now, start) == now < Deadline(start)

\* Mutant: the data counter skips a value.
NextCount_skip(c) == c + 2

\* count += 1, line 172
NextCount(c) == c + 1

\* Mutant: the photo counter is advanced by two.
NextPhoto_twice(p) == p + 2

\* Mutant: the photo counter is not advanced.
NextPhoto_stuck(p) == p

\* phcounter += 1, line 160
NextPhoto(p) == p + 1

\* The number printed by line 180.
Recorded(c) == c - 1

\* ---- convert, lines 44-53 ----
\* An angle is a whole number of hundredths of an arcsecond.

Abs(x) == IF x < 0 THEN -x ELSE x

\* numpy.sign
Sign(x) == IF x < 0 THEN -1 ELSE IF x > 0 THEN 1 ELSE 0

\* format(num/den, '.0f'): the nearest integer, a tie going to the even one.
RoundHalfEven(num, den) ==
    LET q == num \div den
        r == num % den
    IN  IF 2 * r < den THEN q
        ELSE IF 2 * r > den THEN q + 1
        ELSE IF q % 2 = 0 THEN q ELSE q + 1

\* skyfield's Angle.signed_dms(): the sign, and |angle| split by divmod into
\* whole degrees, whole minutes and the remaining seconds (here in hundredths).
SignedDms(angle) ==
    LET n == Abs(angle)
        minutes == n \div 6000
    IN  [sign |-> Sign(angle),
         degrees |-> minutes \div 60,
         minutes |-> minutes % 60,
         seconds |-> n % 6000]

\* Mutant: the rounding of the seconds carries into the minutes.
ExifAngle_carry(dms) ==
    LET t == RoundHalfEven(dms.seconds, 10)
    IN  IF t = 600 THEN <<<<dms.degrees, 1>>, <<dms.minutes + 1, 1>>, <<0, 10>>>>
                   ELSE <<<<dms.degrees, 1>>, <<dms.minutes, 1>>, <<t, 10>>>>

\* f'{degrees:.0f}/1,{minutes:.0f}/1,{seconds*10:.0f}/10', line 52
ExifAngle(dms) ==
    <<<<dms.degrees, 1>>, <<dms.minutes, 1>>, <<RoundHalfEven(dms.seconds, 10), 10>>>>

\* Mutant: the sign test is not strict.
Convert_nonstrict(angle) ==
    [negative |-> SignedDms(angle).sign <= 0, tag |-> ExifAngle(SignedDms(angle))]

\* convert(angle): (sign < 0, exif_angle)
Convert(angle) ==
    [negative |-> SignedDms(angle).sign < 0, tag |-> ExifAngle(SignedDms(angle))]

\* "S" if south else "N", line 65
LatitudeRef(south) == IF south THEN "S" ELSE "N"

\* "W" if west else "E", line 67
LongitudeRef(west) == IF west THEN "W" ELSE "E"

\* The positions ISS.coordinates() returns in the mission model:
\* 45 30' 00.00" S, 0 E  and  12 59' 59.97" N, 179 00' 00.05" W.
Positions == {[latitude |-> -16380000, longitude |-> 0],
              [latitude |-> 4679997, longitude |-> -64440005]}

\* ---- contrast_stretch and calc_ndvi, lines 72-90 ----
\* A float is an exact fraction num/den in lowest terms with den > 0; a
\* division by zero gives den = 0 (num = 1 or -1: infinite, num = 0: nan).
\* An image is a sequence of pixels, a pixel a sequence of channel values.

RECURSIVE Gcd(_, _)
Gcd(a, b) == IF b = 0 THEN a ELSE Gcd(b, a % b)

Frac(n, d) ==
    IF d = 0 THEN [num |-> Sign(n), den |-> 0]
    ELSE LET g == Gcd(Abs(n), Abs(d))
         IN  [num |-> (Sign(d) * n) \div g, den |-> Abs(d) \div g]

Float(n) == Frac(n, 1)
FAdd(a, b) == Frac(a.num * b.den + b.num * a.den, a.den * b.den)
FSub(a, b) == Frac(a.num * b.den - b.num * a.den, a.den * b.den)
FMul(a, b) == Frac(a.num * b.num, a.den * b.den)
FDiv(a, b) == Frac(a.num * b.den, a.den * b.num)
FLess(a, b) == a.num * b.den < b.num * a.den
Finite(a) == a.den # 0

\* The elementwise operations of numpy on an image: im - c, im * c, im + c.
Minus(im, c) == [i \in 1 .. Len(im) |-> [j \in 1 .. Len(im[i]) |-> FSub(im[i][j], c)]]
Times(im, c) == [i \in 1 .. Len(im) |-> [j \in 1 .. Len(im[i]) |-> FMul(im[i][j], c)]]
Plus(im, c) == [i \in 1 .. Len(im) |-> [j \in 1 .. Len(im[i]) |-> FAdd(im[i][j], c)]]

RECURSIVE Flatten(_)
Flatten(im) == IF im = <<>> THEN <<>> ELSE Head(im) \o Flatten(Tail(im))

RECURSIVE Insert(_, _)
Insert(x, sorted) ==
    IF sorted = <<>> THEN <<x>>
    ELSE IF FLess(Head(sorted), x) THEN <<Head(sorted)>> \o Insert(x, Tail(sorted))
    ELSE <<x>> \o sorted

RECURSIVE Sorted(_)
Sorted(buf) == IF buf = <<>> THEN <<>> ELSE Insert(Head(buf), Sorted(Tail(buf)))

\* np.percentile(im, q): over the flattened array, linear interpolation
\* between the two order statistics around position (n-1)*q/100.
Percentile(im, q) ==
    LET v == Sorted(Flatten(im))
        pos == (Len(v) - 1) * q
        lo == pos \div 100 + 1
    IN  IF pos % 100 = 0 THEN v[lo]
        ELSE FAdd(v[lo], FMul(FSub(v[lo + 1], v[lo]), Frac(pos % 100, 100)))

\* Mutant: the subtraction is done in the caller's buffer.
ContrastStretch_inPlace(im) ==
    LET in_min == Percentile(im, 5)
        in_max == Percentile(im, 95)
        scale == FDiv(FSub(Float(0), Float(255)), FSub(in_min, in_max))
        shifted == Minus(im, in_min)
    IN  [im |-> shifted,
         out |-> Plus(Times(shifted, scale), in_min)]

\* contrast_stretch(im), lines 72-83: the buffer of the caller as the function
\* leaves it, and the returned buffer.
ContrastStretch(im) ==
    LET in_min == Percentile(im, 5)
        in_max == Percentile(im, 95)
        out_min == Float(0)
        out_max == Float(255)
        out1 == Minus(im, in_min)
        out2 == Times(out1, FDiv(FSub(out_min, out_max), FSub(in_min, in_max)))
        out3 == Plus(out2, in_min)
    IN  [im |-> im, out |-> out3]

\* Mutant: a zero denominator is left as it is.
Bottom_unguarded(sum) == sum

\* bottom[bottom == 0] = 0.01, line 88
Bottom(sum) == IF sum = Float(0) THEN Frac(1, 100) ELSE sum

\* calc_ndvi(im), lines 85-90; cv.split gives the channels in the order b, g, r.
CalcNdvi(im) ==
    [i \in 1 .. Len(im) |->
        LET b == im[i][1]
            r == im[i][3]
            bottom == Bottom(FAdd(r, b))
        IN  <<FDiv(FSub(b, r), bottom)>>]

\* Mutant: the exception is noted and the iteration goes on.
Raise_continue(what) ==
    /\ pc' = "l172"
    /\ err' = what

\* A collaborator call raised: control goes to the except clause.
Raise(what) ==
    /\ pc' = "l176"
    /\ err' = what

Called(who) == calls' = [calls EXCEPT ![who] = @ + 1]

\* The state of the program when the try block is entered.
Construct ==
    /\ pc = "l95"
    /\ count = Unbound
    /\ phcounter = Unbound
    /\ start_time = Unbound
    /\ now_time = Unbound
    /\ dirs \in SUBSET {"log", "pic"}
    /\ log = <<>>
    /\ pic = <<>>
    /\ events = <<>>
    /\ image_file = NoFile
    /\ mem = NoMem
    /\ lit = FALSE
    /\ err = "none"
    /\ stdout = <<>>
    /\ exit = "running"
    /\ calls = [c \in Collaborators |-> 0]
    /\ shots = <<>>
    /\ allLit = TRUE
    /\ noneLit = TRUE
    /\ cam = <<>>
    /\ frame = NoFrame
    /\ clock = 0

Init ==
    /\ Construct
    /\ fn = NoCall

\* ---- set-up, lines 95-113 ----

\* ephemeris = load('/home/pi/de421.bsp')
L95 ==
    /\ pc = "l95"
    /\ \/ pc' = "l96" /\ err' = err
       \/ Raise("load")
    /\ UNCHANGED <<count, phcounter, start_time, now_time, dirs, log, pic, events,
                   image_file, mem, lit, stdout, exit, calls, shots, allLit, noneLit,
                   cam, frame, clock, fn>>

\* timescale = load.timescale()
L96 ==
    /\ pc = "l96"
    /\ \/ pc' = "l99" /\ err' = err
       \/ Raise("timescale")
    /\ UNCHANGED <<count, phcounter, start_time, now_time, dirs, log, pic, events,
                   image_file, mem, lit, stdout, exit, calls, shots, allLit, noneLit,
                   cam, frame, clock, fn>>

\* count = 0; phcounter = 0
L99 ==
    /\ pc = "l99"
    /\ count' = 0
    /\ phcounter' = 0
    /\ pc' = "l101"
    /\ UNCHANGED <<start_time, now_time, dirs, log, pic, events, image_file, mem,
                   lit, err, stdout, exit, calls, shots, allLit, noneLit,
                   cam, frame, clock, fn>>

\* start_time = datetime.now(); the clock counts from this instant
L101 ==
    /\ pc = "l101"
    /\ start_time' = clock
    /\ pc' = "l102"
    /\ UNCHANGED <<count, phcounter, now_time, dirs, log, pic, events, image_file,
                   mem, lit, err, stdout, exit, calls, shots, allLit, noneLit,
                   cam, frame, clock, fn>>

\* now_time = datetime.now(); Adv is the set of possible clock advances
L102(Adv) ==
    /\ pc = "l102"
    /\ \E d \in Adv : clock' = clock + d
    /\ now_time' = clock'
    /\ pc' = "l105"
    /\ UNCHANGED <<count, phcounter, start_time, dirs, log, pic, events, image_file,
                   mem, lit, err, stdout, exit, calls, shots, allLit, noneLit,
                   cam, frame, fn>>

\* create the folders log/ and pic/ if they do not exist
L105 ==
    /\ pc = "l105"
    /\ \/ /\ dirs' = {"log", "pic"}
          /\ pc' = "l111"
          /\ err' = err
       \/ /\ "log" \notin dirs
          /\ dirs' = dirs
          /\ Raise("mkdir")
       \/ /\ "pic" \notin dirs
          /\ dirs' = dirs \cup {"log"}
          /\ Raise("mkdir")
    /\ UNCHANGED <<count, phcounter, start_time, now_time, log, pic, events,
                   image_file, mem, lit, stdout, exit, calls, shots, allLit, noneLit,
                   cam, frame, clock, fn>>

\* lines 109-113: name the log after the start time, create_csv_file(filename)
L111 ==
    /\ pc = "l111"
    /\ \/ /\ log' = <<Header>>
          /\ pc' = "l116"
          /\ err' = err
       \/ /\ log' = log
          /\ Raise("create_csv_file")
    /\ UNCHANGED <<count, phcounter, start_time, now_time, dirs, pic, events,
                   image_file, mem, lit, stdout, exit, calls, shots, allLit, noneLit,
                   cam, frame, clock, fn>>

\* ---- the recording cycle, lines 116-173 ----

\* while (now_time < start_time + timedelta(minutes = 175))
L116 ==
    /\ pc = "l116"
    /\ IF LoopCond(now_time, start_time)
         THEN count < MaxIter /\ pc' = "l121"
         ELSE pc' = "l179"
    /\ UNCHANGED <<count, phcounter, start_time, now_time, dirs, log, pic, events,
                   image_file, mem, lit, err, stdout, exit, calls, shots, allLit, noneLit,
                   cam, frame, clock, fn>>

\* A sensor or position read: line `here`, collaborator `who`, next line `next`.
Read(here, who, next) ==
    /\ pc = here
    /\ Called(who)
    /\ \/ pc' = next /\ err' = err
       \/ Raise(who)
    /\ UNCHANGED <<count, phcounter, start_time, now_time, dirs, log, pic, events,
                   image_file, mem, lit, stdout, exit, shots, allLit, noneLit,
                   cam, frame, clock, fn>>

\* lines 118-121: timestmp = datetime.now(); location = ISS.coordinates()
L121 == Read("l121", "coordinates", "l125")

\* lines 124-131: sense.get_compass_raw(), rounding, gradient
L125 == Read("l125", "compass", "l135")

\* lines 134-138: sense.get_accelerometer_raw()
L135 == Read("l135", "accelerometer", "l142")

\* lines 141-145: sense.get_orientation()
L142 == Read("l142", "orientation", "l153")

\* lines 148-153: data = (count, ...); add_csv_data(filename, data).
\* When the append raises, the row may or may not have reached the file.
L153 ==
    /\ pc = "l153"
    /\ Called("add_csv_data")
    /\ \/ /\ log' = Append(log, Row(count))
          /\ pc' = "l156"
          /\ err' = err
       \/ /\ log' \in {log, Append(log, Row(count))}
          /\ Raise("add_csv_data")
    /\ UNCHANGED <<count, phcounter, start_time, now_time, dirs, pic, events,
                   image_file, mem, lit, stdout, exit, shots, allLit, noneLit,
                   cam, frame, clock, fn>>

\* Mutant: the gate looks at the data counter after its increment.
OnCadence_afterIncrement(c) == (c + 1) % Cadence = 0

\* The second half of the capture gate, line 157.
OnCadence(c) == c % Cadence = 0

\* Mutant: the sunlit check is made in cadence iterations only.
L156_gated ==
    /\ pc = "l156"
    /\ IF OnCadence(count)
         THEN /\ Called("is_sunlit")
              /\ \/ /\ \E b \in BOOLEAN :
                          /\ lit' = b
                          /\ allLit' = (allLit /\ b)
                          /\ noneLit' = (noneLit /\ ~b)
                          /\ pc' = IF b THEN "l157" ELSE "l172"
                    /\ err' = err
                 \/ /\ Raise("is_sunlit")
                    /\ UNCHANGED <<lit, allLit, noneLit>>
         ELSE /\ pc' = "l172"
              /\ UNCHANGED <<calls, err, lit, allLit, noneLit>>
    /\ UNCHANGED <<count, phcounter, start_time, now_time, dirs, log, pic, events,
                   image_file, mem, stdout, exit, shots,
                   cam, frame, clock, fn>>

\* if ISS.at(timescale.now()).is_sunlit(ephemeris):
L156 ==
    /\ pc = "l156"
    /\ Called("is_sunlit")
    /\ \/ /\ \E b \in BOOLEAN :
                /\ lit' = b
                /\ allLit' = (allLit /\ b)
                /\ noneLit' = (noneLit /\ ~b)
                /\ pc' = IF b THEN "l157" ELSE "l172"
          /\ err' = err
       \/ /\ Raise("is_sunlit")
          /\ UNCHANGED <<lit, allLit, noneLit>>
    /\ UNCHANGED <<count, phcounter, start_time, now_time, dirs, log, pic, events,
                   image_file, mem, stdout, exit, shots,
                   cam, frame, clock, fn>>

\* Mutant: the data counter is incremented before the cadence test.
L157_incrementFirst ==
    /\ pc = "l157"
    /\ count' = NextCount(count)
    /\ pc' = IF OnCadence(count') THEN "l158" ELSE "l172"
    /\ UNCHANGED <<phcounter, start_time, now_time, dirs, log, pic, events,
                   image_file, mem, lit, err, stdout, exit, calls, shots, allLit, noneLit,
                   cam, frame, clock, fn>>

\* if count % 200 == 0:
L157 ==
    /\ pc = "l157"
    /\ pc' = IF OnCadence(count) THEN "l158" ELSE "l172"
    /\ UNCHANGED <<count, phcounter, start_time, now_time, dirs, log, pic, events,
                   image_file, mem, lit, err, stdout, exit, calls, shots, allLit, noneLit,
                   cam, frame, clock, fn>>

\* The directory pic/ after file f has been written with image im.
Put(dir, f, im) == [g \in DOMAIN dir \cup {f} |-> IF g = f THEN im ELSE dir[g]]

\* The picture the camera takes in the iteration with data counter c; the
\* camera embeds its EXIF tags in the file.
Raw(c) == [shot |-> c, ops |-> <<"raw">>, exif |-> cam]

\* image_file = f"{base_folder}/pic/photo_{phcounter:03d}.jpg"
L158 ==
    /\ pc = "l158"
    /\ image_file' = PhotoFile(phcounter)
    /\ pc' = "l159"
    /\ UNCHANGED <<count, phcounter, start_time, now_time, dirs, log, pic, events,
                   mem, lit, err, stdout, exit, calls, shots, allLit, noneLit,
                   cam, frame, clock, fn>>

\* capture(cam, image_file): the call enters the function of lines 55-70.
L159 ==
    /\ pc = "l159"
    /\ frame' = NoFrame
    /\ pc' = "l57"
    /\ UNCHANGED <<count, phcounter, start_time, now_time, dirs, log, pic, events,
                   image_file, mem, lit, err, stdout, exit, calls, shots, allLit,
                   noneLit, cam, clock, fn>>

\* location = ISS.coordinates()
L57 ==
    /\ pc = "l57"
    /\ Called("coordinates")
    /\ \/ /\ \E p \in Positions : frame' = [frame EXCEPT !.location = p]
          /\ pc' = "l60"
          /\ err' = err
       \/ /\ frame' = NoFrame
          /\ Raise("capture_coordinates")
    /\ UNCHANGED <<count, phcounter, start_time, now_time, dirs, log, pic, events,
                   image_file, mem, lit, stdout, exit, shots, allLit, noneLit,
                   cam, clock, fn>>

\* south, exif_latitude = convert(location.latitude)
L60 ==
    /\ pc = "l60"
    /\ frame' = [frame EXCEPT !.lat = Convert(frame.location.latitude)]
    /\ pc' = "l61"
    /\ UNCHANGED <<count, phcounter, start_time, now_time, dirs, log, pic, events,
                   image_file, mem, lit, err, stdout, exit, calls, shots, allLit,
                   noneLit, cam, clock, fn>>

\* west, exif_longitude = convert(location.longitude)
L61 ==
    /\ pc = "l61"
    /\ frame' = [frame EXCEPT !.lon = Convert(frame.location.longitude)]
    /\ pc' = "l64"
    /\ UNCHANGED <<count, phcounter, start_time, now_time, dirs, log, pic, events,
                   image_file, mem, lit, err, stdout, exit, calls, shots, allLit,
                   noneLit, cam, clock, fn>>

\* camera.exif_tags[tag] = value, at line `here`
SetTag(here, tag, value, next) ==
    /\ pc = here
    /\ cam' = Put(cam, tag, value)
    /\ pc' = next
    /\ UNCHANGED <<count, phcounter, start_time, now_time, dirs, log, pic, events,
                   image_file, mem, lit, err, stdout, exit, calls, shots, allLit,
                   noneLit, frame, clock, fn>>

L64 == SetTag("l64", "GPS.GPSLatitude", frame.lat.tag, "l65")

L65 == SetTag("l65", "GPS.GPSLatitudeRef", LatitudeRef(frame.lat.negative), "l66")

L66 == SetTag("l66", "GPS.GPSLongitude", frame.lon.tag, "l67")

L67 == SetTag("l67", "GPS.GPSLongitudeRef", LongitudeRef(frame.lon.negative), "l70")

\* camera.capture(image), and the return to line 160.  When the camera raises,
\* the file may or may not have been written.
L70 ==
    /\ pc = "l70"
    /\ Called("camera")
    /\ frame' = NoFrame
    /\ \/ /\ pic' = Put(pic, image_file, Raw(count))
          /\ shots' = Append(shots, image_file)
          /\ pc' = "l160"
          /\ err' = err
       \/ /\ pic' \in {pic, Put(pic, image_file, Raw(count))}
          /\ shots' = shots
          /\ Raise("camera")
    /\ UNCHANGED <<count, phcounter, start_time, now_time, dirs, log, events,
                   image_file, mem, lit, stdout, exit, allLit, noneLit, cam, clock, fn>>

\* phcounter += 1
L160 ==
    /\ pc = "l160"
    /\ phcounter' = NextPhoto(phcounter)
    /\ pc' = "l161"
    /\ UNCHANGED <<count, start_time, now_time, dirs, log, pic, events, image_file,
                   mem, lit, err, stdout, exit, calls, shots, allLit, noneLit,
                   cam, frame, clock, fn>>

\* logger.info('Photo taken at {}'.format(str(timestmp)))
L161 ==
    /\ pc = "l161"
    /\ events' = Append(events, [level |-> "info", msg |-> "Photo taken"])
    /\ pc' = "l162"
    /\ UNCHANGED <<count, phcounter, start_time, now_time, dirs, log, pic,
                   image_file, mem, lit, err, stdout, exit, calls, shots, allLit, noneLit,
                   cam, frame, clock, fn>>

\* lines 162-163: image = cv.imread(image_file); image = np.array(image)/255
L162 ==
    /\ pc = "l162"
    /\ Called("imread")
    /\ \/ /\ mem' = [mem EXCEPT !.image = Apply("normalise", pic[image_file])]
          /\ pc' = "l164"
          /\ err' = err
       \/ /\ mem' = mem
          /\ Raise("imread")
    /\ UNCHANGED <<count, phcounter, start_time, now_time, dirs, log, pic, events,
                   image_file, lit, stdout, exit, shots, allLit, noneLit,
                   cam, frame, clock, fn>>

\* A step of the image pipeline that computes the name `to` from the name
\* `from` by the operation op, at line `here`.
Compute(here, op, from, to, next) ==
    /\ pc = here
    /\ \/ /\ mem' = [mem EXCEPT ![to] = Apply(op, mem[from])]
          /\ pc' = next
          /\ err' = err
       \/ /\ mem' = mem
          /\ Raise(op)
    /\ UNCHANGED <<count, phcounter, start_time, now_time, dirs, log, pic, events,
                   image_file, lit, stdout, exit, calls, shots, allLit, noneLit,
                   cam, frame, clock, fn>>

\* A cv.imwrite of the name `from` to file f, at line `here`.  When the write
\* raises, the file may or may not have been written.
Write(here, f, from, next) ==
    /\ pc = here
    /\ Called("imwrite")
    /\ \/ /\ pic' = Put(pic, f, mem[from])
          /\ pc' = next
          /\ err' = err
       \/ /\ pic' \in {pic, Put(pic, f, mem[from])}
          /\ Raise("imwrite")
    /\ UNCHANGED <<count, phcounter, start_time, now_time, dirs, log, events,
                   image_file, mem, lit, stdout, exit, shots, allLit, noneLit,
                   cam, frame, clock, fn>>

\* contrasted = contrast_stretch(image)
L164 == Compute("l164", "contrast_stretch", "image", "contrasted", "l165")

\* cv.imwrite(image_file, contrasted)
L165 == Write("l165", image_file, "contrasted", "l166")

\* ndvi = calc_ndvi(contrasted)
\* Mutant: the NDVI is computed from the normalised image, not the stretched one.
L166_fromImage == Compute("l166", "calc_ndvi", "image", "ndvi", "l167")

L166 == Compute("l166", "calc_ndvi", "contrasted", "ndvi", "l167")

\* ndvi_contrasted = contrast_stretch(ndvi)
L167 == Compute("l167", "contrast_stretch", "ndvi", "ndvi_contrasted", "l168")

\* color_mapped_prep = ndvi_contrasted.astype(np.uint8)
L168 == Compute("l168", "astype_uint8", "ndvi_contrasted", "color_mapped_prep", "l169")

\* color_mapped_image = cv.applyColorMap(color_mapped_prep, fastiecm)
L169 == Compute("l169", "applyColorMap", "color_mapped_prep", "color_mapped_image", "l170")

\* cv.imwrite(image_file[:-3]+'ndvi.png', color_mapped_image)
L170 == Write("l170", NdviFile(image_file), "color_mapped_image", "l172")

\* Mutant: the photo counter advances with the data counter.
L172_both ==
    /\ pc = "l172"
    /\ count' = NextCount(count)
    /\ phcounter' = NextPhoto(phcounter)
    /\ lit' = FALSE
    /\ pc' = "l173"
    /\ UNCHANGED <<start_time, now_time, dirs, log, pic, events,
                   image_file, mem, err, stdout, exit, calls, shots, allLit, noneLit,
                   cam, frame, clock, fn>>

\* count += 1
L172 ==
    /\ pc = "l172"
    /\ count' = NextCount(count)
    /\ lit' = FALSE
    /\ pc' = "l173"
    /\ UNCHANGED <<phcounter, start_time, now_time, dirs, log, pic, events,
                   image_file, mem, err, stdout, exit, calls, shots, allLit, noneLit,
                   cam, frame, clock, fn>>

\* Mutant: now_time is not refreshed at the end of the iteration.
L173_stale(Adv) ==
    /\ pc = "l173"
    /\ pc' = "l116"
    /\ UNCHANGED <<count, phcounter, start_time, now_time, dirs, log, pic, events,
                   image_file, mem, lit, err, stdout, exit, calls, shots, allLit, noneLit,
                   cam, frame, clock, fn>>

\* now_time = datetime.now(); the clock never runs backwards
L173(Adv) ==
    /\ pc = "l173"
    /\ \E d \in Adv : clock' = clock + d
    /\ now_time' = clock'
    /\ pc' = "l116"
    /\ UNCHANGED <<count, phcounter, start_time, dirs, log, pic, events, image_file,
                   mem, lit, err, stdout, exit, calls, shots, allLit, noneLit,
                   cam, frame, fn>>

\* ---- the exit path, lines 175-183 ----

\* except Exception as e: logger.error(f'{e.__class__.__name__}: {e}')
L176 ==
    /\ pc = "l176"
    /\ events' = Append(events, [level |-> "error", msg |-> err])
    /\ pc' = "l179"
    /\ UNCHANGED <<count, phcounter, start_time, now_time, dirs, log, pic,
                   image_file, mem, lit, err, stdout, exit, calls, shots, allLit, noneLit,
                   cam, frame, clock, fn>>

\* The report of lines 179-182 for data counter c.
Report(c) ==
    IF c > 0 THEN [text |-> "Recorded measurements: ", n |-> Recorded(c)]
             ELSE [text |-> "No data recorded", n |-> 0]

\* finally: the exit report and 'Thank you'.  Reading count before line 99
\* has assigned it raises NameError, which nothing catches.
L179 ==
    /\ pc = "l179"
    /\ IF count = Unbound
         THEN /\ stdout' = stdout
              /\ exit' = "NameError"
         ELSE /\ stdout' = stdout \o <<Report(count), [text |-> "Thank you", n |-> 0]>>
              /\ exit' = IF err = "none" THEN "normal" ELSE "fatal"
    /\ pc' = "done"
    /\ UNCHANGED <<count, phcounter, start_time, now_time, dirs, log, pic, events,
                   image_file, mem, lit, err, calls, shots, allLit, noneLit,
                   cam, frame, clock, fn>>

\* ---- specifications ----

\* The clock advances by between 0 and MaxAdvance units from one read to the next.
Advances == 0 .. MaxAdvance

Next ==
    \/ L95 \/ L96 \/ L99 \/ L101 \/ L102(Advances) \/ L105 \/ L111
    \/ L116 \/ L121 \/ L125 \/ L135 \/ L142 \/ L153 \/ L156 \/ L157
    \/ L158 \/ L159 \/ L57 \/ L60 \/ L61 \/ L64 \/ L65 \/ L66 \/ L67 \/ L70
    \/ L160 \/ L161 \/ L162 \/ L164 \/ L165 \/ L166
    \/ L167 \/ L168 \/ L169 \/ L170 \/ L172 \/ L173(Advances)
    \/ L176 \/ L179

Spec == Init /\ [][Next]_vars

\* Every clock read returns a later time than the read before it.
StrictAdvances == 1 .. MaxAdvance

LiveNext ==
    \/ L95 \/ L96 \/ L99 \/ L101 \/ L102(StrictAdvances) \/ L105 \/ L111
    \/ L116 \/ L121 \/ L125 \/ L135 \/ L142 \/ L153 \/ L156 \/ L157
    \/ L158 \/ L159 \/ L57 \/ L60 \/ L61 \/ L64 \/ L65 \/ L66 \/ L67 \/ L70
    \/ L160 \/ L161 \/ L162 \/ L164 \/ L165 \/ L166
    \/ L167 \/ L168 \/ L169 \/ L170 \/ L172 \/ L173(StrictAdvances)
    \/ L176 \/ L179

\* The script is sequential and every call returns or raises: a statement
\* that can be executed is executed.
LiveSpec == Init /\ [][LiveNext]_vars /\ WF_vars(LiveNext)

\* ---- the clock between two reads ----

MaxTimedIter == 2

\* Time passes while an iteration runs.
Tick ==
    /\ pc \in {"l121", "l125", "l135", "l142", "l153", "l156", "l157", "l158", "l159",
               "l57", "l60", "l61", "l64", "l65", "l66", "l67", "l70", "l160", "l161",
               "l162", "l164", "l165", "l166", "l167", "l168", "l169", "l170", "l172",
               "l173"}
    /\ clock < Deadline(start_time) + MaxAdvance
    /\ clock' = clock + 1
    /\ UNCHANGED <<pc, count, phcounter, start_time, now_time, dirs, log, pic, events,
                   image_file, mem, lit, err, stdout, exit, calls, shots, allLit,
                   noneLit, cam, frame, fn>>

\* The program with a clock that also advances between the reads, followed
\* for MaxTimedIter iterations.
TimedNext ==
    \/ L95 \/ L96 \/ L99 \/ L101 \/ L102(Advances) \/ L105 \/ L111
    \/ ((count < MaxTimedIter \/ ~LoopCond(now_time, start_time)) /\ L116)
    \/ L121 \/ L125 \/ L135 \/ L142 \/ L153 \/ L156 \/ L157
    \/ L158 \/ L159 \/ L57 \/ L60 \/ L61 \/ L64 \/ L65 \/ L66 \/ L67 \/ L70
    \/ L160 \/ L161 \/ L162 \/ L164 \/ L165 \/ L166
    \/ L167 \/ L168 \/ L169 \/ L170 \/ L172 \/ L173(Advances)
    \/ L176 \/ L179
    \/ Tick

TimedSpec == Init /\ [][TimedNext]_vars

\* ---- vocabulary of the properties ----

BeforeAppendPcs == {"l121", "l125", "l135", "l142", "l153"}
CaptureCallPcs == {"l57", "l60", "l61", "l64", "l65", "l66", "l67", "l70"}
CapturePcs == CaptureCallPcs \cup {"l158", "l159", "l160", "l161", "l162", "l164", "l165",
               "l166", "l167", "l168", "l169", "l170"}
AfterAppendPcs == {"l156", "l157", "l172"} \cup CapturePcs
BodyPcs == BeforeAppendPcs \cup AfterAppendPcs \cup {"l173"}

\* The calls of an iteration that precede / follow the append of its row.
BeforeAppendCalls == {"coordinates", "compass", "accelerometer", "orientation"}
AfterCaptureCalls == {"imread", "contrast_stretch", "calc_ndvi", "astype_uint8",
                      "applyColorMap", "imwrite"}
AfterAppendCalls == {"is_sunlit", "capture_coordinates", "camera"} \cup AfterCaptureCalls
TickCalls == BeforeAppendCalls \cup {"add_csv_data"} \cup AfterAppendCalls

\* Number of data rows in the log.
DataRows == IF log = <<>> THEN 0 ELSE Len(log) - 1

\* The log is the header followed by the rows 0, 1, ..., k-1 in that order.
WellFormedLog ==
    log # <<>> => /\ log[1] = Header
                  /\ \A i \in 2 .. Len(log) : log[i] = Row(i - 2)

\* The log only grows at its end.
LogAppendOnly == Len(log') >= Len(log) /\ SubSeq(log', 1, Len(log)) = log

\* Some artifact in pic/ stems from the picture shot in the iteration with id c.
ArtifactOf(c) == \E f \in DOMAIN pic : pic[f].shot = c

\* The camera completed a capture in the iteration with id c.
ShotIn(c) == \E i \in 1 .. Len(shots) : shots[i] \in DOMAIN pic /\ pic[shots[i]].shot = c

CeilDiv(n, d) == (n + d - 1) \div d

\* The exit report printed for r data rows, as the specification describes it.
ReportFor(r) ==
    IF r = 0 THEN [text |-> "No data recorded", n |-> 0]
             ELSE [text |-> "Recorded measurements: ", n |-> r]

\* ---- properties ----

\* C1: the log is the header followed by the rows with Row_Id 0, 1, ..., k-1
\* in that order; every iteration appends exactly one row (the log has
\* count + 1 lines before the append of an iteration and count + 2 after it,
\* until count is incremented); a normally terminated run of N iterations
\* leaves N + 1 lines.
C1_LogContiguous ==
    /\ WellFormedLog
    /\ pc \in {"l116"} \cup BeforeAppendPcs \cup {"l173"} => Len(log) = count + 1
    /\ pc \in AfterAppendPcs => Len(log) = count + 2 /\ log[Len(log)] = Row(count)
    /\ (pc = "done" /\ exit = "normal") => Len(log) = count + 1

C1_Witness ==
    /\ pc = "done"
    /\ exit = "normal"
    /\ count > Cadence
    /\ Len(log) = count + 1
    /\ log[Len(log)] = Row(count - 1)

\* C2: the capture pipeline runs in an iteration if and only if the sunlit
\* check of the iteration returned true and the Row_Id of the row appended in
\* the iteration is a multiple of 200; the camera is called and pic/ is
\* written in no other circumstances.
C2_CaptureGate ==
    /\ [](pc \in CapturePcs => lit /\ count % Cadence = 0)
    /\ [](pc = "l172" => ((lit /\ count % Cadence = 0) <=> ArtifactOf(count)))
    /\ [](pc = "l172" => ((lit /\ count % Cadence = 0) <=> ShotIn(count)))
    /\ [][(calls'["camera"] # calls["camera"] \/ pic' # pic \/ shots' # shots)
            => /\ pc \in CapturePcs
               /\ lit
               /\ log[Len(log)] = Row(count)
               /\ count % Cadence = 0]_vars

C2_Witness ==
    /\ pc = "l172"
    /\ lit
    /\ count = Cadence
    /\ ShotIn(count)
    /\ ~ShotIn(0)

\* C3: at the end of N failure-free iterations, if every sunlit check was true
\* the number of captures is ceil(N / 200) (3 for N = 401), and while every
\* sunlit check was false there is no capture and phcounter is 0.
C3_CaptureCount ==
    /\ (pc = "l116" \/ (pc = "done" /\ exit = "normal")) /\ allLit
          => /\ phcounter = CeilDiv(count, Cadence)
             /\ Len(shots) = phcounter
             /\ calls["camera"] = phcounter
             /\ count = 401 => phcounter = 3
    /\ phcounter # Unbound /\ noneLit
          => /\ phcounter = 0
             /\ shots = <<>>
             /\ calls["camera"] = 0

C3_Witness ==
    /\ pc = "done"
    /\ exit = "normal"
    /\ allLit
    /\ count = 401
    /\ phcounter = 3

C3_WitnessDark ==
    /\ pc = "done"
    /\ exit = "normal"
    /\ noneLit
    /\ count = 401
    /\ phcounter = 0

\* C4 (as claimed): at exit the report states the number of data rows in the
\* log, and 'No data recorded' is printed exactly when the log has no data row.
\* (The run whose failing call is the append itself is left out: there the
\* number of rows in the log is not determined.)
C4_ExitReport ==
    (pc = "done" /\ exit \in {"normal", "fatal"} /\ err # "add_csv_data")
        => stdout[1] = ReportFor(DataRows)

\* C5 (as claimed): after a fatal failure before any sample was recorded, also
\* one in the set-up steps that precede count = 0, the exit path completes and
\* reports 'No data recorded'.
C5_SetupFailureReport ==
    (pc = "done" /\ err # "none" /\ DataRows = 0)
        => /\ exit = "fatal"
           /\ stdout # <<>>
           /\ stdout[1].text = "No data recorded"

\* The clock value the loop tested last is at or past start_time + 175 minutes.
PastDeadline == now_time * ClockUnit >= start_time * ClockUnit + MissionMinutes

\* C6: with a clock that strictly advances and calls that all return or raise,
\* the run always terminates; once the clock value read by the loop is at or
\* past start_time + 175 minutes the loop is left and no statement of its body
\* is executed.
C6_Terminates ==
    /\ <>(pc = "done")
    /\ [](pc \in BodyPcs \ {"l173"} => ~PastDeadline)
    /\ [][(pc = "l116" /\ PastDeadline) => pc' = "l179"]_vars

C6_Witness ==
    /\ pc = "done"
    /\ exit = "normal"
    /\ count > 1
    /\ PastDeadline
    /\ Len(log) = count + 1

\* C7: the first call of an iteration that raises ends the run: control goes
\* straight to the except clause, after it no collaborator is called, no row
\* is appended, no artifact is written and no counter changes, exactly one
\* error line is logged, the run ends as fatal, and the rows appended before
\* stay as they were.
C7_FailFast ==
    /\ [][(err = "none" /\ err' # "none") => pc' = "l176"]_vars
    /\ [][err # "none"
            => /\ err' = err
               /\ calls' = calls
               /\ log' = log
               /\ pic' = pic
               /\ shots' = shots
               /\ count' = count
               /\ phcounter' = phcounter
               /\ pc' \in {"l179", "done"}]_vars
    /\ [][LogAppendOnly]_vars
    /\ [](Len(SelectSeq(events, LAMBDA e : e.level = "error"))
            = IF err # "none" /\ pc \in {"l179", "done"} THEN 1 ELSE 0)
    /\ [](pc = "done" /\ err \in TickCalls => exit = "fatal")

C7_Witness ==
    /\ pc = "done"
    /\ exit = "fatal"
    /\ err = "is_sunlit"
    /\ count = 2
    /\ calls["is_sunlit"] = 3
    /\ Len(log) = 4

\* C8 (as claimed): after a fatal failure in an iteration the log holds only
\* the rows of the iterations completed before it and pic/ holds only
\* artifacts of earlier iterations.
C8_NoInFlightOutput ==
    (pc = "done" /\ exit = "fatal" /\ err \in AfterAppendCalls)
        => /\ Len(log) = count + 1
           /\ ~ArtifactOf(count)

\* C8 (amended): nothing is rolled back.  After a fatal failure in an
\* iteration the rows of all earlier iterations are in the log; the row of the
\* failing iteration is in the log if the failing call came after the append
\* and is not if it came before; the picture of the failing iteration is in
\* pic/ if the failing call came after the capture; and no step changes or
\* removes a row or an artifact of an earlier iteration.
C8_NoRollback ==
    /\ [](pc = "done" /\ exit = "fatal" /\ err \in TickCalls
            => /\ WellFormedLog
               /\ Len(log) >= count + 1
               /\ err \in BeforeAppendCalls => Len(log) = count + 1
               /\ err \in AfterAppendCalls
                    => Len(log) = count + 2 /\ log[Len(log)] = Row(count)
               /\ err \in AfterCaptureCalls
                    => image_file \in DOMAIN pic /\ pic[image_file].shot = count)
    /\ [][LogAppendOnly]_vars
    /\ [][\A f \in DOMAIN pic :
            pic[f].shot # count => f \in DOMAIN pic' /\ pic'[f] = pic[f]]_vars

C8_Witness ==
    /\ pc = "done"
    /\ exit = "fatal"
    /\ err = "calc_ndvi"
    /\ count = Cadence
    /\ Len(log) = count + 2
    /\ ArtifactOf(0)
    /\ ArtifactOf(count)

\* C9: phcounter equals the number of captures the camera completed, except
\* between the return of a capture and the increment that follows it
\* immediately; it changes only by +1, only in that increment; a change of
\* the data counter leaves it unchanged.
C9_PhotoCounter ==
    /\ [](phcounter # Unbound
            => phcounter = IF pc = "l160" THEN Len(shots) - 1 ELSE Len(shots))
    /\ [][(phcounter # Unbound /\ phcounter' # phcounter)
            => /\ phcounter' = phcounter + 1
               /\ pc = "l160"
               /\ Len(shots) = phcounter + 1
               /\ count' = count]_vars
    /\ [][(count # Unbound /\ count' # count) => phcounter' = phcounter]_vars
    /\ [][(calls'["camera"] # calls["camera"] /\ shots' = shots)
            => phcounter' = phcounter /\ pc' = "l176"]_vars

C9_Witness ==
    /\ pc = "l161"
    /\ phcounter = 2
    /\ Len(shots) = 2
    /\ count = 2 * Cadence
    /\ calls["camera"] = 2

\* The counters that occur in the file names of pic/, and the iterations the
\* pictures in pic/ were shot in.
CountersUsed == {f.counter : f \in DOMAIN pic}
TicksShot == {pic[f].shot : f \in DOMAIN pic}

\* C10: the photo and the NDVI artifact of an iteration carry the same
\* counter, the value phcounter had when the capture of the iteration began;
\* the counters used are 0, 1, ..., P-1 for P capturing iterations, each used
\* by one iteration; no iteration overwrites an artifact of another; every
\* NDVI artifact has a photo artifact with its counter.
C10_ArtifactNames ==
    /\ [](\A f \in DOMAIN pic :
            /\ f.ext = "ndvi.png"
                 => /\ [counter |-> f.counter, ext |-> "jpg"] \in DOMAIN pic
                    /\ pic[[counter |-> f.counter, ext |-> "jpg"]].shot = pic[f].shot
            /\ \A g \in DOMAIN pic : (f.counter = g.counter) <=> (pic[f].shot = pic[g].shot))
    /\ [](CountersUsed = 0 .. Cardinality(TicksShot) - 1)
    /\ [](pc \in {"l159"} \cup CaptureCallPcs => image_file.counter = phcounter)
    /\ [](pc \in CapturePcs \ ({"l158", "l159", "l160"} \cup CaptureCallPcs)
            => image_file.counter = phcounter - 1)
    /\ [](pc \in CapturePcs \ ({"l158", "l159"} \cup CaptureCallPcs)
            => pic[image_file].shot = count)
    /\ [][\A f \in DOMAIN pic :
            f \in DOMAIN pic' /\ pic'[f].shot = pic[f].shot]_vars

C10_Witness ==
    /\ pc = "l172"
    /\ phcounter = 2
    /\ count = Cadence
    /\ DOMAIN pic = {[counter |-> c, ext |-> e] : c \in {0, 1}, e \in {"jpg", "ndvi.png"}}
    /\ pic[[counter |-> 1, ext |-> "jpg"]].shot = count
    /\ pic[[counter |-> 1, ext |-> "ndvi.png"]].shot = count
    /\ pic[[counter |-> 0, ext |-> "ndvi.png"]].shot = 0

\* ---- the capture pipeline, lines 55-70 and 158-170 ----

GeoTags == {"GPS.GPSLatitude", "GPS.GPSLatitudeRef", "GPS.GPSLongitude", "GPS.GPSLongitudeRef"}

\* The tags capture() computes for a position.
TagsOf(p) ==
    [t \in GeoTags |->
        IF t = "GPS.GPSLatitude" THEN Convert(p.latitude).tag
        ELSE IF t = "GPS.GPSLatitudeRef" THEN LatitudeRef(Convert(p.latitude).negative)
        ELSE IF t = "GPS.GPSLongitude" THEN Convert(p.longitude).tag
        ELSE LongitudeRef(Convert(p.longitude).negative)]

PhotoOps == <<"raw", "normalise", "contrast_stretch">>
NdviOps == PhotoOps \o <<"calc_ndvi", "contrast_stretch", "astype_uint8", "applyColorMap">>

\* The lines of the pipeline in the order they run, and the successor of each.
PipelineOrder == <<"l158", "l159", "l57", "l60", "l61", "l64", "l65", "l66", "l67", "l70",
                   "l160", "l161", "l162", "l164", "l165", "l166", "l167",
                   "l168", "l169", "l170", "l172">>

PipelineIndex(l) == CHOOSE i \in 1 .. Len(PipelineOrder) : PipelineOrder[i] = l

\* C11: within a capturing iteration the steps run in one fixed order, each
\* at most once: the four geotag fields are set on the camera, from the
\* position just read, before the camera captures; the captured image is
\* normalised and contrast-stretched; the stretched photo is written over the
\* raw capture before the NDVI is computed; the NDVI is computed from the
\* stretched image, then stretched, quantised, colour-mapped, and written last.
C11_PipelineOrder ==
    /\ [](pc = "l70" => DOMAIN cam = GeoTags /\ cam = TagsOf(frame.location))
    /\ [](pc = "l160" => pic[image_file] = [shot |-> count, ops |-> <<"raw">>, exif |-> cam])
    /\ [](pc = "l166" => /\ mem.contrasted = [shot |-> count, ops |-> PhotoOps]
                         /\ pic[image_file] = mem.contrasted)
    /\ [](pc = "l167" => mem.ndvi = Apply("calc_ndvi", mem.contrasted))
    /\ [](pc = "l170" => NdviFile(image_file) \notin DOMAIN pic)
    /\ [](pc = "l172" /\ ArtifactOf(count)
            => /\ pic[image_file] = [shot |-> count, ops |-> PhotoOps]
               /\ pic[NdviFile(image_file)] = [shot |-> count, ops |-> NdviOps])
    /\ [](pc \in CapturePcs \cup {"l172"} /\ err = "none"
            => /\ calls["camera"] = Len(shots)
               /\ calls["imread"] = IF PipelineIndex(pc) > PipelineIndex("l162")
                                    THEN Len(shots) ELSE Len(shots) - (IF PipelineIndex(pc) > PipelineIndex("l70") THEN 1 ELSE 0)
               /\ calls["imwrite"] = 2 * Cardinality({f \in DOMAIN pic : f.ext = "ndvi.png"})
                                     + (IF pc \in {"l166", "l167", "l168", "l169", "l170"} THEN 1 ELSE 0))
    /\ [][(pc \in CapturePcs /\ err' = "none")
            => (pc' = PipelineOrder[PipelineIndex(pc) + 1])]_vars
    /\ [][cam' # cam => pc \in {"l64", "l65", "l66", "l67"}]_vars
    /\ [][pic' # pic => pc \in {"l70", "l165", "l170"}]_vars

C11_Witness ==
    /\ pc = "l172"
    /\ count = Cadence
    /\ phcounter = 2
    /\ pic[image_file].ops = PhotoOps
    /\ pic[NdviFile(image_file)].ops = NdviOps
    /\ cam = TagsOf([latitude |-> 4679997, longitude |-> -64440005])
    /\ pic[[counter |-> 0, ext |-> "jpg"]].shot = 0

\* ---- the functions of lines 44-90 applied on their own ----

MaxDegrees == 1
MinuteSamples == {0, 30, 59}

\* Signed angles in hundredths of an arcsecond: every hundredth of the
\* seconds, sample minutes, degrees up to MaxDegrees, and 45 30' 00" S.
AngleGrid ==
    {s * (d * 360000 + m * 6000 + c) :
        s \in {-1, 1}, d \in 0 .. MaxDegrees, m \in MinuteSamples, c \in 0 .. 5999}
    \cup {-16380000}

\* The call returns: the result is kept, the main program is at rest.
Return(name, result) ==
    /\ fn.name = name
    /\ ~fn.done
    /\ fn' = [fn EXCEPT !.out = result, !.done = TRUE]
    /\ UNCHANGED <<pc, count, phcounter, start_time, now_time, dirs, log, pic, events,
                   image_file, mem, lit, err, stdout, exit, calls, shots, allLit,
                   noneLit, cam, frame, clock>>

ApplyConvert == Return("convert", Convert(fn.arg))

MaxLevel == 2
MaxPixels == 2

\* Channel values of the images given to calc_ndvi (a stretched image has
\* values of either sign).
Channels == {Float(v) : v \in -MaxLevel .. MaxLevel}
BgrPixels == {<<b, g, r>> : b \in Channels, g \in Channels, r \in Channels}
SamplePixels == {<<Float(0), Float(0), Float(0)>>, <<Float(1), Float(0), Float(-1)>>,
                 <<Float(2), Float(1), Float(1)>>}
NdviImages == {<<p>> : p \in BgrPixels} \cup {<<p, q>> : p \in BgrPixels, q \in SamplePixels}

\* Images given to contrast_stretch: up to MaxPixels pixels of three channels,
\* the first pixel with every combination of levels, the others sample pixels.
Levels == {Float(v) : v \in 0 .. MaxLevel}
LevelPixels == {<<b, g, r>> : b \in Levels, g \in Levels, r \in Levels}
StretchImages ==
    {<<p>> \o rest : p \in LevelPixels,
                     rest \in UNION {[1 .. n -> SamplePixels] : n \in 0 .. MaxPixels - 1}}

ApplyNdvi == Return("calc_ndvi", CalcNdvi(fn.arg))

\* contrasted = contrast_stretch(image)
ApplyStretch ==
    /\ fn.name = "contrast_stretch"
    /\ ~fn.done
    /\ LET r == ContrastStretch(fn.arg)
       IN  fn' = [fn EXCEPT !.arg = r.im, !.out = r.out, !.done = TRUE]
    /\ UNCHANGED <<pc, count, phcounter, start_time, now_time, dirs, log, pic, events,
                   image_file, mem, lit, err, stdout, exit, calls, shots, allLit,
                   noneLit, cam, frame, clock>>

AllFinite(im) == \A i \in 1 .. Len(im) : \A j \in 1 .. Len(im[i]) : Finite(im[i][j])

\* contrast_stretch applied to the buffer a first application returned.
ApplyStretchAgain ==
    /\ fn.name = "contrast_stretch"
    /\ fn.done
    /\ ~fn.redone
    /\ AllFinite(fn.out)
    /\ fn' = [fn EXCEPT !.twice = ContrastStretch(fn.out).out, !.redone = TRUE]
    /\ UNCHANGED <<pc, count, phcounter, start_time, now_time, dirs, log, pic, events,
                   image_file, mem, lit, err, stdout, exit, calls, shots, allLit,
                   noneLit, cam, frame, clock>>

PureInputs ==
    {[name |-> "convert", arg |-> a, out |-> <<>>, done |-> FALSE] : a \in AngleGrid}
    \cup {[name |-> "calc_ndvi", arg |-> im, out |-> <<>>, done |-> FALSE] : im \in NdviImages}
    \cup {[name |-> "contrast_stretch", arg |-> im, out |-> <<>>, done |-> FALSE,
           given |-> im, twice |-> <<>>, redone |-> FALSE] : im \in StretchImages}

PureInit ==
    /\ Construct
    /\ dirs = {"log", "pic"}
    /\ fn \in PureInputs

PureNext ==
    \/ ApplyConvert
    \/ ApplyNdvi
    \/ ApplyStretch
    \/ ApplyStretchAgain

PureSpec == PureInit /\ [][PureNext]_vars

ConvertDone == fn.name = "convert" /\ fn.done

\* The tag's value in hundredths of an arcsecond.
TagValue(tag) == (tag[1][1] * 36000 + tag[2][1] * 600 + tag[3][1]) * 10

\* C12: for every signed angle a of the grid, convert(a) returns
\* is_negative = (a < 0) and a tag D/1,M/1,T/10 with D and M non-negative
\* integers, M in 0..59, whose value is |a| to within a tenth of an arcsecond
\* (exactly |a| when a is a multiple of a tenth); convert(0) is
\* (false, 0, 0, 0) and convert(-45.5 degrees) is (true, 45, 30, 0); the
\* caller's hemisphere is S or W exactly for a negative angle, else N or E.
C12_ConvertContract ==
    ConvertDone =>
        LET a == fn.arg
            r == fn.out
        IN  /\ r.negative = (a < 0)
            /\ Len(r.tag) = 3
            /\ r.tag[1][2] = 1 /\ r.tag[2][2] = 1 /\ r.tag[3][2] = 10
            /\ r.tag[1][1] \in Nat
            /\ r.tag[2][1] \in 0 .. 59
            /\ Abs(TagValue(r.tag) - Abs(a)) <= 10
            /\ (Abs(a) % 10 = 0 => TagValue(r.tag) = Abs(a))
            /\ (a = 0 => r = [negative |-> FALSE, tag |-> <<<<0, 1>>, <<0, 1>>, <<0, 10>>>>])
            /\ (a = -16380000
                  => r = [negative |-> TRUE, tag |-> <<<<45, 1>>, <<30, 1>>, <<0, 10>>>>])
            /\ LatitudeRef(r.negative) = (IF a < 0 THEN "S" ELSE "N")
            /\ LongitudeRef(r.negative) = (IF a < 0 THEN "W" ELSE "E")

C12_Witness ==
    /\ ConvertDone
    /\ fn.arg = -16380000
    /\ fn.out.negative
    /\ fn.out.tag = <<<<45, 1>>, <<30, 1>>, <<0, 10>>>>

\* C17: convert rounds the seconds to the nearest tenth and does not carry:
\* the degrees and the minutes are those of the unrounded angle, the seconds
\* numerator is in 0..600, and seconds in [59.95, 60) give 600/10.
C17_NoCarry ==
    ConvertDone =>
        LET n == Abs(fn.arg)
            tag == fn.out.tag
        IN  /\ tag[1][1] = n \div 360000
            /\ tag[2][1] = (n \div 6000) % 60
            /\ tag[3][1] \in 0 .. 600
            /\ Abs(tag[3][1] * 10 - (n % 6000)) <= 5
            /\ (n % 6000 >= 5995 => tag[3][1] = 600)
            /\ (n % 6000 < 5995 => tag[3][1] < 600)

C17_Witness ==
    /\ ConvertDone
    /\ fn.arg = 360000 + 59 * 6000 + 5997
    /\ fn.out.tag = <<<<1, 1>>, <<59, 1>>, <<600, 10>>>>

NdviDone == fn.name = "calc_ndvi" /\ fn.done

\* The image with the green channel of every pixel replaced by g.
WithGreen(im, g) == [i \in 1 .. Len(im) |-> <<im[i][1], g, im[i][3]>>]

\* C13: calc_ndvi never divides by zero: for every pixel the result is
\* (blue - red) / denominator, the denominator being 0.01 when red + blue = 0
\* and red + blue otherwise; a pixel with red = blue = 0 gives 0; the green
\* channel does not influence the result.
C13_NdviGuard ==
    NdviDone =>
        /\ Len(fn.out) = Len(fn.arg)
        /\ \A i \in 1 .. Len(fn.arg) :
              LET blue == fn.arg[i][1]
                  red == fn.arg[i][3]
                  sum == FAdd(red, blue)
                  ndvi == fn.out[i][1]
              IN  /\ Finite(ndvi)
                  /\ sum = Float(0) => FMul(ndvi, Frac(1, 100)) = FSub(blue, red)
                  /\ sum # Float(0) => FMul(ndvi, sum) = FSub(blue, red)
                  /\ (red = Float(0) /\ blue = Float(0)) => ndvi = Float(0)
        /\ \A g \in Channels : CalcNdvi(WithGreen(fn.arg, g)) = fn.out

\* A pixel with red + blue = 0 and blue # red, beside one with red + blue # 0.
C13_Witness ==
    /\ NdviDone
    /\ fn.arg = <<<<Float(1), Float(2), Float(-1)>>, <<Float(2), Float(1), Float(1)>>>>
    /\ fn.out = <<<<Float(200)>>, <<Frac(1, 3)>>>>

StretchDone == fn.name = "contrast_stretch" /\ fn.done

\* The percentiles of the whole buffer, all channels of all pixels together.
P5(im) == Percentile(<<Flatten(im)>>, 5)
P95(im) == Percentile(<<Flatten(im)>>, 95)

\* The returned buffer is (x - p5) * (255 / (p95 - p5)) + p5 for every element
\* x; an element equal to p5 gives p5 and one equal to p95 gives 255 + p5.
StretchFormula ==
    (StretchDone /\ P5(fn.given) # P95(fn.given)) =>
        LET p5 == P5(fn.given)
            p95 == P95(fn.given)
        IN  \A i \in 1 .. Len(fn.given) : \A j \in 1 .. Len(fn.given[i]) :
               LET x == fn.given[i][j]
               IN  /\ fn.out[i][j]
                        = FAdd(FMul(FSub(x, p5), FDiv(Float(255), FSub(p95, p5))), p5)
                   /\ x = p5 => fn.out[i][j] = p5
                   /\ x = p95 => fn.out[i][j] = FAdd(Float(255), p5)

\* C18 as stated: the formula, and a second application of contrast_stretch
\* changes the result of the first.
C18_SecondDiffers ==
    /\ StretchFormula
    /\ (StretchDone /\ fn.redone) => fn.twice # fn.out

\* C18: contrast_stretch is a function of its input, leaves the buffer it is
\* given unmodified, and returns (x - p5) * (255 / (p95 - p5)) + p5 for every
\* element x, with the percentiles taken over the whole buffer; p5 maps to p5
\* and p95 to 255 + p5.  A second application returns the result of the first
\* unchanged: the percentiles of the result are p5 and 255 + p5.  When
\* p5 = p95 no element of the result is a finite number.
C18_Stretch ==
    /\ [](StretchFormula)
    /\ [](StretchDone => fn.arg = fn.given)
    /\ []((StretchDone /\ P5(fn.given) # P95(fn.given))
            => /\ AllFinite(fn.out)
               /\ P5(fn.out) = P5(fn.given)
               /\ P95(fn.out) = FAdd(Float(255), P5(fn.given)))
    /\ []((StretchDone /\ P5(fn.given) = P95(fn.given))
            => \A i \in 1 .. Len(fn.out) : \A j \in 1 .. Len(fn.out[i]) : ~Finite(fn.out[i][j]))
    /\ []((StretchDone /\ fn.redone) => fn.twice = fn.out)
    /\ [][(fn.name = "contrast_stretch" /\ ~fn.done /\ fn'.done)
            => fn'.out = ContrastStretch(fn.given).out]_vars

\* A two-pixel image with p5 = 1/4 stretched twice.
C18_Witness ==
    /\ StretchDone
    /\ fn.redone
    /\ fn.given = <<<<Float(0), Float(1), Float(2)>>, <<Float(2), Float(1), Float(1)>>>>
    /\ P5(fn.given) = Frac(1, 4)
    /\ fn.out # fn.given
    /\ fn.twice = fn.out

\* ---- the order of the steps of an iteration, lines 118-173 ----

GatePcs == {"l156", "l157"}
LastRowId == log[Len(log)].Row_Id

\* C14 as stated: the data counter has been incremented past the id of the
\* row just appended when the capture gate is evaluated.
C14_IncrementBeforeGate == pc \in GatePcs => count = LastRowId + 1

\* C14: an iteration acquires the sample, appends the row, evaluates the
\* capture gate (sunlit, then count % 200 = 0) on the data counter that is
\* still the id of the row just appended, runs the capture pipeline if the
\* gate holds, and increments the data counter as its last step before the
\* clock is read.
C14_StepOrder ==
    /\ [](pc = "l153" => \A who \in {"compass", "accelerometer", "orientation"} :
                            calls[who] = count + 1)
    /\ [](pc \in GatePcs => Len(log) = count + 2 /\ LastRowId = count)
    /\ [][(pc = "l153" /\ err' = "none") => pc' = "l156"]_vars
    /\ [][(pc = "l156" /\ err' = "none") => pc' = (IF lit' THEN "l157" ELSE "l172")]_vars
    /\ [][pc = "l157" => pc' = (IF LastRowId % Cadence = 0 THEN "l158" ELSE "l172")]_vars
    /\ [][count' # count => (pc \in {"l99", "l172"} /\ pc' \in {"l101", "l173"})]_vars
    /\ [][pc' = "l172" => pc \in {"l156", "l157", "l170"}]_vars

C14_Witness ==
    /\ pc = "l157"
    /\ lit
    /\ count = Cadence
    /\ LastRowId = Cadence
    /\ Len(log) = Cadence + 2
    /\ DOMAIN pic = {PhotoFile(0), NdviFile(PhotoFile(0))}

\* ---- the deadline, lines 101-118 and 172-173 ----

\* The wall clock is at or past start_time + 175 minutes.
Overdue == clock >= Deadline(start_time)

\* The lines of an iteration's work, from the first read to count += 1.
WorkPcs == BodyPcs \ {"l173"}

AfterLoopPcs == {"l173", "l116", "l176", "l179", "done"}

\* C15: the deadline is tested once per iteration, before its work, on the
\* clock value read at the end of the iteration before, and nowhere else: an
\* iteration that has started runs to its end even when the deadline passes
\* meanwhile; only the iteration in flight when the deadline passes appends a
\* row or writes artifacts after the deadline; no iteration starts when the
\* clock value tested is at or past the deadline.
C15_DeadlineTest ==
    /\ [][pc = "l116"
            => pc' = (IF now_time < Deadline(start_time) THEN "l121" ELSE "l179")]_vars
    /\ [][pc' = "l116" => pc \in {"l111", "l173"}]_vars
    /\ [][(pc \in BodyPcs /\ err' = "none") => pc' \in BodyPcs \cup {"l116"}]_vars
    /\ [][now_time' # now_time => pc \in {"l102", "l173"}]_vars
    /\ [](pc \in WorkPcs => now_time < Deadline(start_time))
    /\ [][(Overdue /\ (log' # log \/ pic' # pic)) => now_time < Deadline(start_time)]_vars
    /\ \A c \in 0 .. MaxTimedIter + 1 :
          []((Overdue /\ pc \in WorkPcs /\ count = c)
                => [](count = c \/ (count = c + 1 /\ pc \in AfterLoopPcs)))

\* The deadline has passed while the capture pipeline of an iteration runs.
C15_Witness ==
    /\ pc = "l170"
    /\ Overdue
    /\ now_time < Deadline(start_time)
    /\ Len(log) = 2
    /\ PhotoFile(0) \in DOMAIN pic

\* ---- the sunlit check, lines 153-157 ----

\* C16: every iteration makes the sunlit check once, after its row has been
\* appended, whether or not the data counter is a multiple of 200, and its
\* result is used in that iteration only; a failure of the check ends the
\* run in whichever iteration it happens.
C16_SunlitEveryIteration ==
    /\ [](pc \in BeforeAppendPcs \cup {"l116", "l156"} /\ count # Unbound
            => calls["is_sunlit"] = count)
    /\ [](pc \in AfterAppendPcs \ {"l156"} => calls["is_sunlit"] = count + 1)
    /\ [](pc = "l156" => Len(log) = count + 2 /\ LastRowId = count)
    /\ [][calls'["is_sunlit"] # calls["is_sunlit"]
            => /\ pc = "l156"
               /\ calls'["is_sunlit"] = calls["is_sunlit"] + 1]_vars
    /\ [][pc' = "l157" => (pc = "l156" /\ lit')]_vars
    /\ [][pc = "l172" => ~lit']_vars
    /\ [](err = "is_sunlit"
            => /\ pc \in {"l176", "l179", "done"}
               /\ calls["is_sunlit"] = count + 1
               /\ Len(log) = count + 2)

\* The check fails in an iteration that is not a cadence iteration.
C16_Witness ==
    /\ pc = "done"
    /\ err = "is_sunlit"
    /\ count = Cadence + 1
    /\ calls["is_sunlit"] = Cadence + 2
    /\ Len(log) = Cadence + 3
    /\ phcounter = 2

\* ---- the two counters, lines 99-100 and 156-173 ----

\* The cadence iterations started so far: those with data counter 0, 200, ...
\* up to c.
CadenceIterations(c) == c \div Cadence + 1

\* C19: in every reachable state phcounter <= floor(count / 200) + 1: the
\* photos never outnumber the cadence iterations (data counter 0, 200, 400,
\* ...) started so far, and an iteration takes at most one photo.
C19_CounterBound ==
    /\ [](phcounter # Unbound => phcounter <= CadenceIterations(count))
    /\ [](Len(shots) <= CadenceIterations(count))
    /\ [](pc \in {"l173", "l116"} /\ count > 0
            => phcounter <= CadenceIterations(count - 1))
    /\ [][(phcounter # Unbound /\ phcounter' # phcounter)
            => /\ phcounter' = phcounter + 1
               /\ count' = count
               /\ count % Cadence = 0
               /\ phcounter <= count \div Cadence]_vars

\* The bound is met: three photos when the data counter is 400.
C19_Witness ==
    /\ phcounter = 3
    /\ count = 2 * Cadence
    /\ phcounter = CadenceIterations(count)
    /\ Len(shots) = 3
    /\ pc = "l172"

====
